---- MODULE Spec2Model ----
(***************************************************************************)
(* The e-mail PIN login of the employee management API (src/auth.py and   *)
(* the two authentication routes of src/app.py).                          *)
(*                                                                         *)
(* pin_storage is the module-level dictionary of src/auth.py.  Each HTTP  *)
(* request is a task of the server's event loop; a route that is          *)
(* `async def` and never awaits keeps the loop from its first line to its *)
(* return, so the steps of one handler run without another task between   *)
(* them (HoldsLoop).  The clock is datetime.now(), in minutes.            *)
(*                                                                         *)
(* Spec follows the PIN store.  TokenSpec follows the tokens that the      *)
(* verify-pin route returns (create_access_token, verify_token) and the    *)
(* employee routes of src/app.py, which all depend on get_current_user.    *)
(***************************************************************************)
EXTENDS Integers, Sequences, FiniteSets, TLC

\* ------------------------------------------------------------ bounds
NumCodes == 2          \* PIN values the model draws from (the code has 10^6)
NumTasks == 2          \* requests the server handles at the same time
MaxTime == 15          \* the clock stops here
ClockStep == 5         \* minutes between two observations of the clock
TokenClockStep == 240  \* the same, where the life of a token is followed
TokenMaxTime == 720    \* the clock stops here where the life of a token is followed
MaxLogins == 2         \* successful logins followed
MaxEmployees == 2      \* rows ever inserted into the employees table

\* ------------------------------------------------- program constants
PIN_TTL_MINUTES == 10  \* timedelta(minutes=10) in store_pin
MAX_ATTEMPTS == 3      \* the literal 3 in verify_pin
ACCESS_TOKEN_EXPIRE_MINUTES == 480
SECRET_KEY == "your-secret-key-change-this-in-production"
ALGORITHM == "HS256"

Ids == {"a@x.com", "b@x.com"}
Codes == 0 .. (NumCodes - 1)
Tasks == 1 .. NumTasks
DeliveryOutcomes == {"sent", "logged_only", "smtp_error"}
EmployeeOps == {"create", "list", "fetch", "update", "delete"}
EmployeeIds == 1 .. MaxEmployees

VARIABLES
    now,          \* datetime.now()
    pin_storage,  \* dict: email -> [pin, expires_at, attempts]
    running,      \* the task that holds the event loop, 0 when it is free
    task,         \* per request slot: position in its handler and its locals
    hist,         \* history per email (not program state)
    logins,       \* the successful logins and the tokens they returned
    employees,    \* ids of the rows of the employees table
    next_id,      \* the id the table gives to the next row
    req           \* the employee request being handled

vars == <<now, pin_storage, running, task, hist, logins, employees, next_id, req>>

\* what the authentication routes leave alone
apiVars == <<logins, employees, next_id, req>>

\* what the employee routes leave alone
pinVars == <<pin_storage, running, task, hist>>

\* ------------------------------------------------------- dictionary
\* del d[k]
Del(d, k) == [x \in DOMAIN d \ {k} |-> d[x]]

\* d[k] = v
Put(d, k, v) == [x \in DOMAIN d \cup {k} |-> IF x = k THEN v ELSE d[x]]

\* ---------------------------------------------------------- auth.py
\* store_pin: the dictionary value it builds
NewEntry(pin, t) == [pin |-> pin, expires_at |-> t + PIN_TTL_MINUTES, attempts |-> 0]

\* the bug of storing only when the email has no entry yet
StorePinKeepsExisting(d, email, pin, t) ==
    IF email \in DOMAIN d THEN d ELSE Put(d, email, NewEntry(pin, t))

\* the bug of updating an existing entry in place, its attempts kept
StorePinKeepsAttempts(d, email, pin, t) ==
    IF email \in DOMAIN d
    THEN [d EXCEPT ![email] = [NewEntry(pin, t) EXCEPT !.attempts = d[email].attempts]]
    ELSE Put(d, email, NewEntry(pin, t))

\* store_pin: pin_storage[email] = {...}
StorePin(d, email, pin, t) == Put(d, email, NewEntry(pin, t))

\* the bug of the comparison turned round
IsExpiredTurnedRound(t, e) == t < e.expires_at

\* verify_pin: datetime.now() > stored_data["expires_at"]
IsExpired(t, e) == t > e.expires_at

\* the bug of > for >=
TooManyAttemptsOffByOne(e) == e.attempts > MAX_ATTEMPTS

\* verify_pin: stored_data["attempts"] >= 3
TooManyAttempts(e) == e.attempts >= MAX_ATTEMPTS

\* verify_pin: stored_data["pin"] == entered_pin
PinMatches(e, entered) == e.pin = entered

\* the bug of counting the failure on a copy of the entry
RecordFailureLost(e) == e

\* verify_pin: stored_data["attempts"] += 1
RecordFailure(e) == [e EXCEPT !.attempts = @ + 1]

\* the bug of comparing the code before looking at attempts
VerifyBranchMatchFirst(t, e, entered) ==
    IF IsExpired(t, e) THEN "expired"
    ELSE IF PinMatches(e, entered) THEN "success"
    ELSE IF TooManyAttempts(e) THEN "too_many_attempts"
    ELSE "mismatch"

\* verify_pin: the branch taken for entry e, in the order of the code
VerifyBranch(t, e, entered) ==
    IF IsExpired(t, e) THEN "expired"
    ELSE IF TooManyAttempts(e) THEN "too_many_attempts"
    ELSE IF PinMatches(e, entered) THEN "success"
    ELSE "mismatch"

\* the bug of keeping the entry after a successful verify
DeletesNotOnSuccess(reason) == reason \in {"expired", "too_many_attempts"}

\* verify_pin: the branches that run `del pin_storage[email]`
Deletes(reason) == reason \in {"expired", "too_many_attempts", "success"}

\* the bug of taking every return of verify_pin for a success
IsValidAlways(reason) == TRUE

\* verify_pin: its return value
IsValid(reason) == reason = "success"

\* the bug of sweeping an entry at the very time of its expires_at
ExpiredEmailsAtExpiry(d, t) == {k \in DOMAIN d : t >= d[k].expires_at}

\* cleanup_expired_pins: expired_emails
ExpiredEmails(d, t) == {k \in DOMAIN d : t > d[k].expires_at}

\* cleanup_expired_pins: the dictionary after the deletions
CleanupExpiredPins(d, t) == [k \in DOMAIN d \ ExpiredEmails(d, t) |-> d[k]]

\* send_pin_email: every path returns True, the except branch included
SendPinEmail(outcome) == TRUE

\* the bug of withdrawing the PIN when the mail could not be sent
StorageAfterSendRollback(d, email, outcome) ==
    IF outcome = "smtp_error" THEN Del(d, email) ELSE d

\* send_pin_email: what it leaves of the dictionary (it never touches it)
StorageAfterSend(d, email, outcome) == d

\* ------------------------------------------------------------- tokens
\* A JWT is `header.claims.signature`.  It is kept here as the record of what
\* the three segments decode to: segments, how many segments the string has;
\* alg, the algorithm its header names; claims, the JSON object of its second
\* segment; sig, its third segment.  The times of the claims are whole units
\* of the clock, as the NumericDate of a JWT is a whole number.

\* the MAC of the first two segments under a key: equal for equal key, header
\* and claims, different otherwise
Hmac(key, alg, claims) == [key |-> key, alg |-> alg, claims |-> claims]

\* jwt.encode(claims, key, algorithm=alg)
JwtEncode(claims, key, alg) ==
    [segments |-> 3, alg |-> alg, claims |-> claims, sig |-> Hmac(key, alg, claims)]

\* jwt.decode(token, key, algorithms=algorithms) at time t: the exception it
\* raises ("" when it returns) and the claims it returns.  The library refuses
\* a token that has not three segments, names an algorithm that is not
\* allowed, or has a signature that is not the MAC of its first two segments
\* under the key (JWTError), and a token whose exp is before the current time,
\* `exp < now` (ExpiredSignatureError).
JwtDecode(token, key, algorithms, t) ==
    IF token.segments # 3 THEN [err |-> "JWTError", claims |-> <<>>]
    ELSE IF token.alg \notin algorithms THEN [err |-> "JWTError", claims |-> <<>>]
    ELSE IF token.sig # Hmac(key, token.alg, token.claims)
         THEN [err |-> "JWTError", claims |-> <<>>]
    ELSE IF "exp" \in DOMAIN token.claims /\ token.claims.exp < t
         THEN [err |-> "ExpiredSignatureError", claims |-> <<>>]
    ELSE [err |-> "", claims |-> <<token.claims>>]

\* the bug of giving the token the lifetime of a PIN
CreateAccessTokenPinLifetime(email, t) ==
    JwtEncode([sub |-> email, exp |-> t + PIN_TTL_MINUTES], SECRET_KEY, ALGORITHM)

\* create_access_token
CreateAccessToken(email, t) ==
    JwtEncode([sub |-> email, exp |-> t + ACCESS_TOKEN_EXPIRE_MINUTES], SECRET_KEY, ALGORITHM)

\* the bug of an except clause for the expiry alone
CaughtOnlyExpiry(err) == err = "ExpiredSignatureError"

\* verify_token, `except JWTError`: the class and its subclasses
Caught(err) == err \in {"JWTError", "ExpiredSignatureError", "JWTClaimsError"}

\* payload.get(key): <<>> for None
Get(payload, key) == IF key \in DOMAIN payload THEN <<payload[key]>> ELSE <<>>

\* the bug of reading a claim that create_access_token does not write
SubjectFromEmailClaim(payload) == Get(payload, "email")

\* verify_token: email = payload.get("sub")
Subject(payload) == Get(payload, "sub")

\* verify_token at time t: whether it raises, and the value it returns,
\* <<>> for None and <<email>> for an email
VerifyToken(token, t) ==
    LET r == JwtDecode(token, SECRET_KEY, {ALGORITHM}, t) IN
    IF r.err # ""
    THEN [raised |-> ~Caught(r.err), value |-> <<>>]
    ELSE [raised |-> FALSE, value |-> Subject(r.claims[1])]

\* ---------------------------------------------------- get_current_user
\* An Authorization header: words, the number of words authorization.split()
\* finds in it (0 for a missing or empty header); scheme, the first word;
\* token, the second word decoded, <<>> when there is none.
NoHeader == [words |-> 0, scheme |-> "", token |-> <<>>]

\* scheme.lower()
Lower(scheme) == IF scheme = "Bearer" THEN "bearer" ELSE scheme

\* `not email`: None and the empty string
Falsy(value) == value = <<>> \/ value = <<"">>

\* the bug of leaving out the check of the scheme
GetCurrentUserAnyScheme(authorization, t) ==
    IF authorization.words # 2
    THEN [status |-> 401, current_user |-> "", verified |-> <<>>]
    ELSE LET v == VerifyToken(authorization.token[1], t) IN
         IF v.raised THEN [status |-> 500, current_user |-> "", verified |-> <<v>>]
         ELSE IF Falsy(v.value) THEN [status |-> 401, current_user |-> "", verified |-> <<v>>]
         ELSE [status |-> 200, current_user |-> v.value[1], verified |-> <<v>>]

\* get_current_user at time t: the status it ends with (200 when it returns),
\* the email it returns, and what verify_token gave it (<<>> when it was not
\* called).  An exception out of verify_token is the framework's 500.
GetCurrentUser(authorization, t) ==
    IF authorization.words = 0
    THEN [status |-> 401, current_user |-> "", verified |-> <<>>]
    ELSE IF authorization.words # 2 \/ Lower(authorization.scheme) # "bearer"
    THEN [status |-> 401, current_user |-> "", verified |-> <<>>]
    ELSE LET v == VerifyToken(authorization.token[1], t) IN
         IF v.raised THEN [status |-> 500, current_user |-> "", verified |-> <<v>>]
         ELSE IF Falsy(v.value) THEN [status |-> 401, current_user |-> "", verified |-> <<v>>]
         ELSE [status |-> 200, current_user |-> v.value[1], verified |-> <<v>>]

\* ------------------------------------------------ what a client can send
\* the tokens the server has returned
Issued == {l.token : l \in logins}

\* What can be made of a token without the server's key: its subject or its
\* expiry rewritten under the old signature, the rewritten claims signed with
\* another key, the signature cut off, and the claims declared unsigned.
Forgeries(tk) ==
    LET other == [tk.claims EXCEPT !.sub = CHOOSE i \in Ids : i # tk.claims.sub]
        later == [tk.claims EXCEPT !.exp = @ + ACCESS_TOKEN_EXPIRE_MINUTES]
    IN {[tk EXCEPT !.claims = other],
        [tk EXCEPT !.claims = later],
        JwtEncode(other, "another-secret", ALGORITHM),
        [tk EXCEPT !.segments = 2],
        [tk EXCEPT !.alg = "none", !.sig = Hmac("", "none", tk.claims)]}

Presentable == Issued \cup UNION {Forgeries(tk) : tk \in Issued}

\* the headers of the requests the model sends
Headers ==
    {NoHeader}
    \cup {[words |-> 1, scheme |-> "Bearer", token |-> <<>>]}
    \cup {[words |-> 3, scheme |-> "Bearer", token |-> <<tk>>] : tk \in Issued}
    \cup {[words |-> 2, scheme |-> "Basic", token |-> <<tk>>] : tk \in Issued}
    \cup {[words |-> 2, scheme |-> s, token |-> <<tk>>] :
            s \in {"Bearer", "bearer"}, tk \in Presentable}

\* ------------------------------------------------------------ history
\* What has happened for one email since its latest issue, recorded beside the
\* program so that the claims can speak of earlier calls:
\*   latest    the code of the latest issue, -1 before the first
\*   older     the code of the issue before it, when no verify succeeded
\*             between the two and the codes differ, else -1
\*   at        the time of the latest issue
\*   delivery  how the delivery of the latest issue ended, until the first
\*             verify call after it
\*   fresh, run  the results of the verify calls made one after the other
\*             since the issue (see Qualifies)
\*   compared  the attempts value read by each call that reached the
\*             comparison, forgotten by a call that ends before the comparison
\*             (it finds no entry, or removes the one it finds)
\*   won       the codes that verified successfully
\*   spent     whether the latest issue replaced an entry with 3 recorded
\*             failures, until the first verify call after it
NoHist ==
    [latest |-> -1, older |-> -1, at |-> -1, delivery |-> "", fresh |-> FALSE, run |-> <<>>,
     compared |-> <<>>, won |-> <<>>, spent |-> FALSE]

MaxRun == 5

\* a PIN is generated and stored for the email at time t
HistIssue(h, pin, t) ==
    [latest |-> pin,
     older |-> IF h.won = <<>> /\ h.latest # pin THEN h.latest ELSE -1,
     at |-> t, delivery |-> "", fresh |-> TRUE, run |-> <<>>,
     compared |-> <<>>, won |-> <<>>, spent |-> FALSE]

\* The calls counted in `run`: made one after the other since the issue, the
\* first three with a wrong code within PIN_TTL_MINUTES of the issue, the
\* fourth within that time, the fifth at any time.
Qualifies(h, entered, t) ==
    /\ h.fresh
    /\ Len(h.run) < MaxRun
    /\ Len(h.run) < 4 => t <= h.at + PIN_TTL_MINUTES
    /\ Len(h.run) < 3 => entered # h.latest

\* a verify call for the email ends with `reason`; `read` is the attempts
\* value it compared under (<<>> when it did not reach the comparison)
HistVerify(h, entered, t, reason, read) ==
    LET q == Qualifies(h, entered, t) IN
    [h EXCEPT
        !.delivery = "",
        !.spent = FALSE,
        !.fresh = q,
        !.run = IF q THEN Append(@, reason) ELSE <<>>,
        !.at = IF q /\ Len(h.run) < 3 THEN @ ELSE -1,
        !.compared = IF read = <<>> THEN <<>>
                      ELSE IF Len(@) > MAX_ATTEMPTS THEN @ ELSE @ \o read,
        !.won = IF reason = "success" /\ Len(@) < 2 THEN Append(@, entered) ELSE @]

\* ---------------------------------------------------- the event loop
\* the routes declared `def`: the framework runs them in a thread pool, and
\* another request may run between any two steps
RunsInThreadPool == FALSE

\* The routes are `async def` and call auth.* without awaiting anything.
HoldsLoop == TRUE

CanRun(t) == running \in {0, t}

\* who holds the loop after a step of t that is not its last
AfterStep(t) == IF HoldsLoop THEN t ELSE 0

\* a new request takes the first free slot
FreeSlot(t) == task[t].pc = "idle" /\ \A u \in Tasks : u < t => task[u].pc # "idle"

\* the attempts of the entry an issue replaces, -1 when the sweep leaves none
PriorAttempts(d, email, t) ==
    IF email \in DOMAIN CleanupExpiredPins(d, t) THEN d[email].attempts ELSE -1

\* Locals of a request, beside the program's own (email, pin, stored_data,
\* email_sent): pc, its position; ref, whether stored_data is still the object
\* in the dictionary; reason, the branch verify_pin returned from or the way
\* the delivery ended; and two records of history: before, the history of the
\* email when a verify call began, and prior (see PriorAttempts).
IdleTask ==
    [pc |-> "idle", email |-> "", pin |-> -1, ref |-> "none",
     stored_data |-> <<>>, reason |-> "", email_sent |-> FALSE,
     before |-> NoHist, prior |-> -1]

\* stored_data of task u: the object bound in the dictionary while u's
\* reference is "bound", the object u kept once the key was re-bound or deleted
Obj(u) ==
    IF task[u].ref = "bound" THEN pin_storage[task[u].email]
    ELSE task[u].stored_data[1]

\* Keys K of dictionary d are re-bound or deleted: a task that holds a
\* reference to one of those objects keeps the object, no longer in d.
Detach(tk, d, K) ==
    [u \in Tasks |->
        IF tk[u].ref = "bound" /\ tk[u].email \in K
        THEN [tk[u] EXCEPT !.ref = "detached", !.stored_data = <<d[tk[u].email]>>]
        ELSE tk[u]]

\* The employee request being handled: pc, its position (the dependency
\* get_current_user is resolved before the body of the route is entered);
\* op, the route; authorization, its header; auth, what get_current_user
\* ended with; status, the status of the response; ran, whether the body of
\* the route was executed.
IdleReq ==
    [pc |-> "idle", op |-> "", authorization |-> NoHeader,
     auth |-> [status |-> 0, current_user |-> "", verified |-> <<>>],
     status |-> 0, ran |-> FALSE]

\* --------------------------------------------------------------- Init
Init ==
    /\ now = 0
    /\ pin_storage = [k \in {} |-> 0]
    /\ running = 0
    /\ task = [t \in Tasks |-> IdleTask]
    /\ hist = [k \in Ids |-> NoHist]
    /\ logins = {}
    /\ employees = {}
    /\ next_id = 1
    /\ req = IdleReq

\* ------------------------------------------- POST /api/auth/verify-pin
\* verify_pin, `if email not in pin_storage` and `stored_data = pin_storage[email]`
VerifyLookup(t, email, entered) ==
    /\ FreeSlot(t)
    /\ CanRun(t)
    /\ IF email \notin DOMAIN pin_storage
       THEN /\ task' = [task EXCEPT ![t] =
                    [IdleTask EXCEPT !.pc = "verify_return", !.email = email,
                                     !.pin = entered, !.reason = "not_found",
                                     !.before = hist[email]]]
            /\ hist' = [hist EXCEPT ![email] =
                    HistVerify(@, entered, now, "not_found", <<>>)]
       ELSE /\ task' = [task EXCEPT ![t] =
                    [IdleTask EXCEPT !.pc = "verify_checks", !.email = email,
                                     !.pin = entered, !.ref = "bound",
                                     !.before = hist[email]]]
            /\ hist' = hist
    /\ running' = AfterStep(t)
    /\ UNCHANGED <<now, pin_storage>>
    /\ UNCHANGED apiVars

\* verify_pin, from the expiry check to its return
VerifyChecks(t) ==
    /\ task[t].pc = "verify_checks"
    /\ CanRun(t)
    /\ LET email == task[t].email
           e == Obj(t)
           reason == VerifyBranch(now, e, task[t].pin)
           keyError == Deletes(reason) /\ email \notin DOMAIN pin_storage
           read == IF reason \in {"success", "mismatch"} THEN <<e.attempts>> ELSE <<>>
       IN
       /\ pin_storage' =
            IF keyError THEN pin_storage
            ELSE IF Deletes(reason) THEN Del(pin_storage, email)
            ELSE IF task[t].ref = "bound"
                 THEN [pin_storage EXCEPT ![email] = RecordFailure(@)]
                 ELSE pin_storage
       /\ task' =
            [(IF Deletes(reason) /\ ~keyError
              THEN Detach(task, pin_storage, {email}) ELSE task)
             EXCEPT ![t] =
                [task[t] EXCEPT !.pc = "verify_return", !.ref = "none",
                                !.stored_data = <<e>>,
                                !.reason = IF keyError THEN "error" ELSE reason]]
       /\ hist' = [hist EXCEPT ![email] =
                    HistVerify(@, task[t].pin, now,
                               IF keyError THEN "error" ELSE reason, read)]
    /\ running' = AfterStep(t)
    /\ UNCHANGED now
    /\ UNCHANGED apiVars

\* the bug of a response that tells why the PIN was refused
VerifyPinResponseTellsCause(reason, email, t) ==
    IF IsValid(reason)
    THEN [status |-> 200, detail |-> "Login successful!",
          access_token |-> <<CreateAccessToken(email, t)>>, email |-> email]
    ELSE [status |-> 401, detail |-> reason, access_token |-> <<>>, email |-> ""]

\* the route at time t: is_valid decides between the 200 with a token for
\* request.email and the 401; access_token is <<>> in a response without one
VerifyPinResponse(reason, email, t) ==
    IF reason = "error"
    THEN [status |-> 500, detail |-> "KeyError", access_token |-> <<>>, email |-> ""]
    ELSE IF IsValid(reason)
         THEN [status |-> 200, detail |-> "Login successful!",
               access_token |-> <<CreateAccessToken(email, t)>>, email |-> email]
    ELSE [status |-> 401, detail |-> "Invalid or expired PIN. Please request a new PIN.",
          access_token |-> <<>>, email |-> ""]

VerifyReturn(t) ==
    /\ task[t].pc = "verify_return"
    /\ CanRun(t)
    /\ task' = [task EXCEPT ![t] = IdleTask]
    /\ running' = 0
    /\ UNCHANGED <<now, pin_storage, hist>>
    /\ UNCHANGED apiVars

\* ------------------------------------------ POST /api/auth/request-pin
\* auth.cleanup_expired_pins(); pin = auth.generate_pin();
\* auth.store_pin(request.email, pin)
IssueStore(t, email) ==
    /\ FreeSlot(t)
    /\ CanRun(t)
    /\ \E pin \in Codes :
        /\ pin_storage' = StorePin(CleanupExpiredPins(pin_storage, now), email, pin, now)
        /\ task' = [Detach(task, pin_storage,
                           ExpiredEmails(pin_storage, now) \cup (DOMAIN pin_storage \cap {email}))
                    EXCEPT ![t] = [IdleTask EXCEPT !.pc = "issue_send", !.email = email,
                                                   !.pin = pin,
                                                   !.prior = PriorAttempts(pin_storage, email, now)]]
        /\ hist' = [hist EXCEPT ![email] =
                    [HistIssue(@, pin, now) EXCEPT
                        !.spent = PriorAttempts(pin_storage, email, now) = MAX_ATTEMPTS]]
    /\ running' = AfterStep(t)
    /\ UNCHANGED now
    /\ UNCHANGED apiVars

\* email_sent = auth.send_pin_email(request.email, pin)
IssueSend(t) ==
    /\ task[t].pc = "issue_send"
    /\ CanRun(t)
    /\ \E outcome \in DeliveryOutcomes :
        /\ pin_storage' = StorageAfterSend(pin_storage, task[t].email, outcome)
        /\ task' = [task EXCEPT ![t] =
                    [task[t] EXCEPT !.pc = "issue_return", !.reason = outcome,
                                    !.email_sent = SendPinEmail(outcome)]]
        /\ hist' = [hist EXCEPT ![task[t].email].delivery = outcome]
    /\ running' = AfterStep(t)
    /\ UNCHANGED now
    /\ UNCHANGED apiVars

\* the route: email_sent decides between the 200 and the 500
RequestPinResponse(email_sent) ==
    IF email_sent THEN [status |-> 200] ELSE [status |-> 500]

IssueReturn(t) ==
    /\ task[t].pc = "issue_return"
    /\ CanRun(t)
    /\ task' = [task EXCEPT ![t] = IdleTask]
    /\ running' = 0
    /\ UNCHANGED <<now, pin_storage, hist>>
    /\ UNCHANGED apiVars

\* -------------------------------------------------------------- clock
Tick ==
    /\ running = 0
    /\ now + ClockStep <= MaxTime
    /\ now' = now + ClockStep
    /\ UNCHANGED pinVars
    /\ UNCHANGED apiVars

Next ==
    \/ \E t \in Tasks, email \in Ids, entered \in Codes : VerifyLookup(t, email, entered)
    \/ \E t \in Tasks : VerifyChecks(t)
    \/ \E t \in Tasks : VerifyReturn(t)
    \/ \E t \in Tasks, email \in Ids : IssueStore(t, email)
    \/ \E t \in Tasks : IssueSend(t)
    \/ \E t \in Tasks : IssueReturn(t)
    \/ Tick

Spec == Init /\ [][Next]_vars

\* ===================================================================
\* The life of a token: the logins and the employee routes.  Which
\* verify-pin requests succeed is followed by Spec; here a login is the
\* return of the verify-pin route for a request whose PIN verified.
\* ===================================================================

\* POST /api/auth/verify-pin, `if is_valid:`, for a request whose PIN verified
VerifyPinSucceeds(email) ==
    /\ req.pc = "idle"
    /\ Cardinality(logins) < MaxLogins
    /\ now + ACCESS_TOKEN_EXPIRE_MINUTES <= TokenMaxTime
    /\ LET response == VerifyPinResponse("success", email, now) IN
       logins' = logins \cup
            {[email |-> email, at |-> now, token |-> response.access_token[1]]}
    /\ UNCHANGED <<now, employees, next_id, req>>
    /\ UNCHANGED pinVars

\* an employee route is called: current_user = Depends(get_current_user)
EmployeeDepends(op, authorization) ==
    /\ req.pc = "idle"
    /\ op = "create" => next_id <= MaxEmployees
    /\ LET a == GetCurrentUser(authorization, now) IN
       req' = [IdleReq EXCEPT !.op = op, !.authorization = authorization, !.auth = a,
                              !.pc = IF a.status = 200 THEN "body" ELSE "done",
                              !.status = IF a.status = 200 THEN 0 ELSE a.status]
    /\ UNCHANGED <<now, logins, employees, next_id>>
    /\ UNCHANGED pinVars

\* db.*: the rows after the operation
RowsAfter(op, rows, id, next) ==
    IF op = "create" THEN rows \cup {next}
    ELSE IF op = "delete" THEN rows \ {id}
    ELSE rows

\* the status of the route: 404 when the row of a fetch, update or delete
\* does not exist
BodyStatus(op, rows, id) ==
    IF op \in {"fetch", "update", "delete"} /\ id \notin rows THEN 404 ELSE 200

\* the body of the route, on employee_id id
EmployeeBody(id) ==
    /\ req.pc = "body"
    /\ employees' = RowsAfter(req.op, employees, id, next_id)
    /\ next_id' = IF req.op = "create" THEN next_id + 1 ELSE next_id
    /\ req' = [req EXCEPT !.pc = "done", !.ran = TRUE,
                          !.status = BodyStatus(req.op, employees, id)]
    /\ UNCHANGED <<now, logins>>
    /\ UNCHANGED pinVars

\* the response is sent
EmployeeReturn ==
    /\ req.pc = "done"
    /\ req' = IdleReq
    /\ UNCHANGED <<now, logins, employees, next_id>>
    /\ UNCHANGED pinVars

TokenTick ==
    /\ req.pc = "idle"
    /\ now + TokenClockStep <= TokenMaxTime
    /\ now' = now + TokenClockStep
    /\ UNCHANGED <<logins, employees, next_id>>
    /\ UNCHANGED req
    /\ UNCHANGED pinVars

TokenNext ==
    \/ \E email \in Ids : VerifyPinSucceeds(email)
    \/ \E op \in EmployeeOps, authorization \in Headers : EmployeeDepends(op, authorization)
    \/ \E id \in EmployeeIds : EmployeeBody(id)
    \/ EmployeeReturn
    \/ TokenTick

TokenSpec == Init /\ [][TokenNext]_vars

\* ===================================================================
\* Properties
\* ===================================================================
Returned(t) == task[t].pc = "verify_return"

\* the entry a returned verify call examined, as it was when the call began
Seen(t) == task[t].stored_data[1]

Found(t) == task[t].stored_data # <<>>

\* C1: a verify with the stored code, made no later than expires_at and while
\* fewer than 3 failures are recorded, succeeds and removes the entry; a later
\* verify for the email with the same code, with no new issue in between,
\* fails as not_found.
C1_SingleUse ==
    \A t \in Tasks : Returned(t) =>
        /\ (/\ Found(t)
            /\ Seen(t).pin = task[t].pin
            /\ now <= Seen(t).expires_at
            /\ Seen(t).attempts < MAX_ATTEMPTS)
           => (task[t].reason = "success" /\ task[t].email \notin DOMAIN pin_storage)
        /\ (task[t].before.won # <<>> /\ task[t].before.won[1] = task[t].pin)
           => task[t].reason = "not_found"

\* a verify with the code that had verified before is answered not_found
C1_Witness ==
    \E t \in Tasks :
        /\ Returned(t)
        /\ task[t].before.won = <<task[t].pin>>
        /\ task[t].reason = "not_found"

\* C2, as the specification states it: of the verify calls that follow an
\* issue one after the other with a wrong code, the first two fail with
\* mismatch, the third with too_many_attempts, and a fourth call fails with
\* not_found.
C2_AsStated ==
    \A k \in Ids :
        LET run == hist[k].run IN
        /\ Len(run) >= 1 => run[1] = "mismatch"
        /\ Len(run) >= 2 => run[2] = "mismatch"
        /\ Len(run) >= 3 => run[3] = "too_many_attempts"
        /\ Len(run) >= 4 => run[4] = "not_found"

\* C2, amended: the first three wrong codes fail with mismatch; a fourth call
\* before expiry, whatever its code, fails with too_many_attempts and removes
\* the entry; a fifth call fails with not_found.
C2_ThreeMismatches ==
    \A k \in Ids :
        LET run == hist[k].run IN
        /\ \A i \in 1 .. Len(run) :
              run[i] = (IF i <= 3 THEN "mismatch"
                        ELSE IF i = 4 THEN "too_many_attempts" ELSE "not_found")
        /\ Len(run) >= 4 => k \notin DOMAIN pin_storage

\* the fourth call in a row after an issue, made with the issued code
C2_Witness ==
    \E t \in Tasks :
        /\ Returned(t)
        /\ Len(hist[task[t].email].run) = 4
        /\ task[t].pin = hist[task[t].email].latest

\* C3: a verify made when now > expires_at of the email's entry fails with
\* expired whether or not the code matches, and the entry is gone afterwards;
\* no verify succeeds on an entry once now > expires_at.
C3_Expired ==
    \A t \in Tasks : (Returned(t) /\ Found(t)) =>
        /\ now > Seen(t).expires_at
           => (task[t].reason = "expired" /\ task[t].email \notin DOMAIN pin_storage)
        /\ task[t].reason = "success" => now <= Seen(t).expires_at

\* the correct code, submitted after expires_at, is refused as expired
C3_Witness ==
    \E t \in Tasks :
        /\ Returned(t) /\ Found(t)
        /\ Seen(t).pin = task[t].pin
        /\ now > Seen(t).expires_at
        /\ task[t].reason = "expired"

\* the email's PIN when a verify call began was still within its 10 minutes,
\* and every call since its issue had been a wrong code, fewer than 3 of them
LiveBefore(t) ==
    /\ task[t].before.fresh
    /\ Len(task[t].before.run) < MAX_ATTEMPTS
    /\ now <= task[t].before.at + PIN_TTL_MINUTES

\* C4: after two issues for an email with no successful verify in between, a
\* verify succeeds only with the code of the second: the first code, when it
\* differs, is never accepted, and the second is, while its PIN is live.
C4_OnlyLatestVerifies ==
    \A t \in Tasks : Returned(t) =>
        /\ task[t].reason = "success" => task[t].pin = hist[task[t].email].latest
        /\ (/\ task[t].before.older # -1
            /\ task[t].pin = task[t].before.latest
            /\ LiveBefore(t))
           => task[t].reason = "success"

\* after a second issue with another code and one refused code, the second
\* code verifies
C4_Witness ==
    \E t \in Tasks :
        /\ Returned(t)
        /\ task[t].before.older # -1
        /\ task[t].before.run = <<"mismatch">>
        /\ task[t].pin = task[t].before.latest
        /\ task[t].reason = "success"

\* C5: when issue has stored the PIN, the dictionary holds for the email the
\* one entry with the generated code, attempts = 0 and expires_at = issue
\* time + 10 minutes, whatever the email held before.
C5_AfterIssue ==
    \A t \in Tasks : task[t].pc = "issue_send" =>
        /\ task[t].email \in DOMAIN pin_storage
        /\ pin_storage[task[t].email] =
              [pin |-> task[t].pin, expires_at |-> now + PIN_TTL_MINUTES, attempts |-> 0]

\* an issue that replaced an entry with recorded failures
C5_Witness ==
    \E t \in Tasks :
        /\ task[t].pc = "issue_send"
        /\ task[t].prior > 0
        /\ pin_storage[task[t].email].attempts = 0

\* C6: in every reachable state the attempts of every stored entry is between
\* 0 and 3.
C6_AttemptsInRange ==
    \A k \in DOMAIN pin_storage :
        pin_storage[k].attempts \in 0 .. MAX_ATTEMPTS

\* an entry with three recorded failures, between two requests
C6_Witness ==
    /\ running = 0
    /\ \E k \in DOMAIN pin_storage : pin_storage[k].attempts = MAX_ATTEMPTS

\* C7, as the specification states it: the failed verify that raises attempts
\* to 3 deletes the entry, so no state between operations holds an entry with
\* attempts >= 3.
C7_AsStated ==
    /\ \A t \in Tasks :
          (Returned(t) /\ task[t].reason = "mismatch"
              /\ Seen(t).attempts + 1 >= MAX_ATTEMPTS)
          => task[t].email \notin DOMAIN pin_storage
    /\ running = 0 => \A k \in DOMAIN pin_storage : pin_storage[k].attempts < MAX_ATTEMPTS

\* C7, amended: the failed verify that raises attempts to 3 leaves the entry
\* in the dictionary with attempts = 3; a verify that finds an entry with
\* attempts >= 3 never succeeds and deletes it.
C7_DeletedByNextVerify ==
    \A t \in Tasks : (Returned(t) /\ Found(t)) =>
        /\ (task[t].reason = "mismatch" /\ Seen(t).attempts + 1 >= MAX_ATTEMPTS)
           => /\ task[t].email \in DOMAIN pin_storage
              /\ pin_storage[task[t].email] = [Seen(t) EXCEPT !.attempts = MAX_ATTEMPTS]
        /\ Seen(t).attempts >= MAX_ATTEMPTS
           => /\ task[t].reason \in {"too_many_attempts", "expired"}
              /\ task[t].email \notin DOMAIN pin_storage

\* the correct code, submitted before expiry for an entry with 3 failures
C7_Witness ==
    \E t \in Tasks :
        /\ Returned(t) /\ Found(t)
        /\ Seen(t).attempts = MAX_ATTEMPTS
        /\ Seen(t).pin = task[t].pin
        /\ task[t].reason = "too_many_attempts"

\* no value occurs twice in sequence q
NoRepeat(q) == \A i, j \in 1 .. Len(q) : q[i] = q[j] => i = j

\* C8: verify requests for one email never overlap between reading the entry
\* and acting on it: no two of them hold the entry at once, no attempts value
\* is read by two comparisons, and at most 3 codes are compared against one
\* stored PIN.
C8_ExactCounting ==
    /\ \A t, u \in Tasks :
          (task[t].pc = "verify_checks" /\ task[u].pc = "verify_checks"
              /\ task[t].email = task[u].email) => t = u
    /\ \A k \in Ids :
          /\ Len(hist[k].compared) <= MAX_ATTEMPTS
          /\ NoRepeat(hist[k].compared)

\* three codes were compared against one PIN, under attempts 0, 1 and 2
C8_Witness ==
    \E t \in Tasks :
        /\ Returned(t)
        /\ hist[task[t].email].compared = <<0, 1, 2>>

\* the entry an issue stored, as long as its handler runs
StoredBy(t) ==
    /\ task[t].email \in DOMAIN pin_storage
    /\ pin_storage[task[t].email] =
          [pin |-> task[t].pin, expires_at |-> now + PIN_TTL_MINUTES, attempts |-> 0]

\* C9: a verify and an issue for one email never overlap: the entry a verify
\* has read is still the one in the dictionary when it acts on it, a verify
\* succeeds only with the code stored last, and the entry an issue stored is
\* neither deleted nor changed before that issue returns.
C9_NoLostUpdate ==
    /\ \A t \in Tasks : task[t].pc = "verify_checks" => task[t].ref = "bound"
    /\ \A t \in Tasks :
          (Returned(t) /\ task[t].reason = "success")
          => Seen(t).pin = hist[task[t].email].latest
    /\ \A t \in Tasks : task[t].pc \in {"issue_send", "issue_return"} => StoredBy(t)

\* a verify with the replaced code has read the entry of the second issue
C9_Witness ==
    \E t \in Tasks :
        /\ task[t].pc = "verify_checks"
        /\ task[t].before.older = task[t].pin
        /\ Obj(t).pin = task[t].before.latest

\* C10: issue stores the PIN before it attempts delivery, a failed delivery
\* leaves the stored entry as it was, and the code still verifies afterwards.
C10_DeliveryFailureKeepsPin ==
    /\ \A t \in Tasks : task[t].pc = "issue_send" => StoredBy(t)
    /\ \A t \in Tasks :
          (task[t].pc = "issue_return" /\ task[t].reason = "smtp_error") => StoredBy(t)
    /\ \A t \in Tasks :
          (/\ Returned(t)
           /\ task[t].before.delivery = "smtp_error"
           /\ task[t].pin = task[t].before.latest
           /\ LiveBefore(t))
          => task[t].reason = "success"

\* the code of an issue whose delivery failed verifies
C10_Witness ==
    \E t \in Tasks :
        /\ Returned(t)
        /\ task[t].before.delivery = "smtp_error"
        /\ task[t].reason = "success"

\* C11: when the delivery of the PIN fails, the caller of issue is informed:
\* the response of a request whose delivery failed differs from the response
\* of a request whose mail was sent.
C11_CallerInformed ==
    \A t \in Tasks :
        (task[t].pc = "issue_return" /\ task[t].reason = "smtp_error")
        => RequestPinResponse(task[t].email_sent) # RequestPinResponse(SendPinEmail("sent"))

\* C12: round trip: for every identity, verify_token applied, at the time of
\* issuance and under the same secret, to the token create_access_token made
\* for the identity returns exactly that identity.
C12_RoundTrip ==
    \A l \in logins :
        l.at = now => VerifyToken(l.token, now) = [raised |-> FALSE, value |-> <<l.email>>]

\* the tokens of two identities, both issued now, each verified to its own
C12_Witness ==
    \E l, k \in logins :
        /\ l.at = now /\ k.at = now /\ l.email # k.email
        /\ VerifyToken(l.token, now).value = <<l.email>>
        /\ VerifyToken(k.token, now).value = <<k.email>>

\* C13, as the specification states it: a token carries exp = issuance time +
\* 8 hours, and verify_token returns the identity only while now < exp; at
\* every time from exp onward it returns None.
C13_AsStated ==
    \A l \in logins :
        /\ l.token.claims.exp = l.at + ACCESS_TOKEN_EXPIRE_MINUTES
        /\ VerifyToken(l.token, now).value =
              (IF now < l.token.claims.exp THEN <<l.email>> ELSE <<>>)

\* C13, amended: a token carries exp = issuance time + 8 hours, and
\* verify_token returns the identity at every time up to and including exp;
\* at every time after exp it returns None.
C13_ValidThroughExpiry ==
    \A l \in logins :
        /\ l.token.claims.exp = l.at + ACCESS_TOKEN_EXPIRE_MINUTES
        /\ VerifyToken(l.token, now) =
              [raised |-> FALSE,
               value |-> IF now <= l.token.claims.exp THEN <<l.email>> ELSE <<>>]

\* one token is verified at the very time of its exp, another after its exp
C13_Witness ==
    \E l, k \in logins :
        /\ now = l.token.claims.exp
        /\ VerifyToken(l.token, now).value = <<l.email>>
        /\ now > k.token.claims.exp
        /\ VerifyToken(k.token, now).value = <<>>

\* a token that is malformed, or whose signature is not the one the server's
\* secret gives to its header and claims
NotFromServer(tk) ==
    tk.segments # 3 \/ tk.sig # Hmac(SECRET_KEY, tk.alg, tk.claims)

\* C14: for every token that is malformed, has an altered signature or
\* payload, or was signed under another secret, verify_token returns None and
\* does not raise: no such token yields an identity, at any time.
C14_ForgedTokenAbsent ==
    /\ \A tk \in Presentable :
          NotFromServer(tk) => VerifyToken(tk, now) = [raised |-> FALSE, value |-> <<>>]
    /\ (req.pc # "idle" /\ req.auth.verified # <<>>
            /\ NotFromServer(req.authorization.token[1]))
       => req.auth.verified[1] = [raised |-> FALSE, value |-> <<>>]

\* verify_token was given a token signed under another secret, for another
\* identity, and returned None
C14_Witness ==
    /\ req.pc = "done"
    /\ req.auth.verified = <<[raised |-> FALSE, value |-> <<>>]>>
    /\ req.authorization.token[1].sig.key = "another-secret"
    /\ req.authorization.token[1].segments = 3

\* the header of the request is `Bearer <token>`, in any case of the letters
IsBearer(h) == h.words = 2 /\ h.scheme \in {"Bearer", "bearer"}

\* C15: the body of an employee route (create, list, fetch, update, delete) is
\* executed only for a request whose bearer token verifies to a non-empty
\* identity, and then a PIN was verified for that identity within the 8 hours
\* before; a request with no header, with another scheme, or with a token the
\* server did not issue or whose exp has passed is answered 401 and its body
\* is not executed.
C15_EmployeeRoutesAuthenticated ==
    LET h == req.authorization IN
    /\ (req.pc = "body" \/ req.ran)
       => /\ IsBearer(h)
          /\ req.auth.current_user # ""
          /\ VerifyToken(h.token[1], now).value = <<req.auth.current_user>>
          /\ \E l \in logins :
                /\ l.email = req.auth.current_user
                /\ l.at <= now
                /\ now - l.at <= ACCESS_TOKEN_EXPIRE_MINUTES
    /\ (/\ req.pc # "idle"
        /\ \/ ~IsBearer(h)
           \/ h.token[1] \notin Issued
           \/ now > h.token[1].claims.exp)
       => (req.pc = "done" /\ req.status = 401 /\ ~req.ran)

\* a delete was executed for a request with a token issued some time before
C15_Witness ==
    /\ req.pc = "done"
    /\ req.ran
    /\ req.op = "delete"
    /\ req.status = 200
    /\ \E l \in logins : l.token = req.authorization.token[1] /\ l.at < now

\* C16: every verify call, whatever the dictionary holds and whatever other
\* verify, issue and sweep calls the server handles, returns True or False
\* (False from one of the branches not_found, expired, too_many_attempts and
\* mismatch) and never ends with an exception: the route answers 200 or 401.
C16_BooleanOutcome ==
    \A t \in Tasks : Returned(t) =>
        /\ task[t].reason \in
              {"success", "not_found", "expired", "too_many_attempts", "mismatch"}
        /\ IsValid(task[t].reason) \in BOOLEAN
        /\ VerifyPinResponse(task[t].reason, task[t].email, now).status \in {200, 401}

\* a verify for a PIN that the sweep of another email's issue has removed
C16_Witness ==
    \E t \in Tasks :
        /\ Returned(t)
        /\ task[t].before.fresh
        /\ task[t].before.run = <<>>
        /\ task[t].reason = "not_found"
        /\ \E k \in DOMAIN pin_storage : k # task[t].email

\* C17: verify makes its checks in the order not found, expired, attempts >=
\* 3, code match, mismatch, and returns from the first that applies: for an
\* entry that is not expired and has attempts >= 3, a verify with the correct
\* code fails with too_many_attempts and deletes the entry.
C17_CheckOrder ==
    \A t \in Tasks : Returned(t) =>
        /\ task[t].reason =
              (IF ~Found(t) THEN "not_found"
               ELSE IF now > Seen(t).expires_at THEN "expired"
               ELSE IF Seen(t).attempts >= MAX_ATTEMPTS THEN "too_many_attempts"
               ELSE IF Seen(t).pin = task[t].pin THEN "success"
               ELSE "mismatch")
        /\ (/\ Found(t)
            /\ now <= Seen(t).expires_at
            /\ Seen(t).attempts >= MAX_ATTEMPTS
            /\ Seen(t).pin = task[t].pin)
           => (task[t].reason = "too_many_attempts"
               /\ task[t].email \notin DOMAIN pin_storage)

\* the correct code is refused, at the very time of expires_at, for an entry
\* with 3 failures, and the entry is gone
C17_Witness ==
    \E t \in Tasks :
        /\ Returned(t) /\ Found(t)
        /\ now = Seen(t).expires_at
        /\ Seen(t).attempts >= MAX_ATTEMPTS
        /\ Seen(t).pin = task[t].pin
        /\ task[t].reason = "too_many_attempts"
        /\ task[t].email \notin DOMAIN pin_storage

\* task t returns from verify_pin by the mismatch branch in this step
MismatchStep(t) ==
    /\ task[t].pc = "verify_checks"
    /\ task'[t].pc = "verify_return"
    /\ task'[t].reason = "mismatch"

\* C18: a verify that fails with mismatch leaves the email's entry in the
\* dictionary with attempts increased by exactly 1 and pin and expires_at as
\* they were, and changes the entry of no other email; a later verify with
\* the correct code, before expiry, succeeds when fewer than 3 failures are
\* recorded.
C18_MismatchCountsOnce ==
    /\ [][\A t \in Tasks : MismatchStep(t) =>
            /\ task[t].email \in DOMAIN pin_storage
            /\ pin_storage' = [pin_storage EXCEPT ![task[t].email] =
                                    [pin |-> @.pin, expires_at |-> @.expires_at,
                                     attempts |-> @.attempts + 1]]]_vars
    /\ [](\A t \in Tasks :
            (/\ Returned(t) /\ Found(t)
             /\ Seen(t).attempts \in 1 .. (MAX_ATTEMPTS - 1)
             /\ Seen(t).pin = task[t].pin
             /\ now <= Seen(t).expires_at)
            => task[t].reason = "success")

\* the correct code verifies after two recorded failures, while another email
\* has an entry of its own
C18_Witness ==
    \E t \in Tasks :
        /\ Returned(t) /\ Found(t)
        /\ Seen(t).attempts = MAX_ATTEMPTS - 1
        /\ task[t].before.run = <<"mismatch", "mismatch">>
        /\ task[t].reason = "success"
        /\ \E k \in DOMAIN pin_storage : k # task[t].email

\* task t enters request_pin in this step: the sweep, then the new PIN stored
IssueStep(t) == task[t].pc = "idle" /\ task'[t].pc = "issue_send"

\* C19: issue runs the sweep first: the sweep removes every entry whose
\* expires_at < now and leaves every entry with expires_at >= now as it was
\* (the entry of the email of the issue is then replaced), so that directly
\* after an issue the dictionary holds no expired entry for any email.
C19_SweepBeforeStore ==
    /\ [][\A t \in Tasks : IssueStep(t) =>
            \A k \in Ids \ {task'[t].email} :
                IF k \in DOMAIN pin_storage /\ pin_storage[k].expires_at >= now
                THEN k \in DOMAIN pin_storage' /\ pin_storage'[k] = pin_storage[k]
                ELSE k \notin DOMAIN pin_storage']_vars
    /\ [](\A t \in Tasks : task[t].pc = "issue_send" =>
            \A k \in DOMAIN pin_storage : ~(pin_storage[k].expires_at < now))

\* directly after an issue, the PIN of another email, which had expired with
\* no verify call made for it, is no longer in the dictionary
C19_Witness ==
    \E t \in Tasks, k \in Ids :
        /\ task[t].pc = "issue_send"
        /\ k # task[t].email
        /\ hist[k].fresh /\ hist[k].run = <<>>
        /\ hist[k].at + PIN_TTL_MINUTES < now
        /\ k \notin DOMAIN pin_storage

\* C20: the verify-pin route returns a token if and only if verify_pin
\* returned True for the request, which it does only for the stored code,
\* before expiry and with fewer than 3 failures recorded; the subject of the
\* token is the email of the request, and the token verifies to that email; a
\* request whose verification failed gets a 401 and no token.
C20_TokenIffVerified ==
    \A t \in Tasks : Returned(t) =>
        LET response == VerifyPinResponse(task[t].reason, task[t].email, now)
            verified == /\ Found(t)
                        /\ Seen(t).pin = task[t].pin
                        /\ now <= Seen(t).expires_at
                        /\ Seen(t).attempts < MAX_ATTEMPTS
        IN
        /\ response.access_token # <<>> <=> verified
        /\ verified
           => /\ response.status = 200
              /\ response.access_token[1].claims.sub = task[t].email
              /\ VerifyToken(response.access_token[1], now).value = <<task[t].email>>
        /\ ~verified => response.status = 401

\* a request with the right code gets no token: its entry has 3 failures
C20_Witness ==
    \E t \in Tasks :
        /\ Returned(t) /\ Found(t)
        /\ Seen(t).pin = task[t].pin
        /\ task[t].reason = "too_many_attempts"
        /\ VerifyPinResponse(task[t].reason, task[t].email, now).access_token = <<>>

\* C21: an issue for an email resets the failure count to 0 and the expiry,
\* even when the entry it replaces has attempts = 3, so the limit of 3 bounds
\* the guesses per issued PIN only: a wrong code submitted after such an
\* issue, the fourth at least for the email, is compared again and fails with
\* mismatch, counted as the first failure of the new PIN.
C21_IssueResetsLimit ==
    /\ \A t \in Tasks :
          (task[t].pc = "issue_send" /\ task[t].prior = MAX_ATTEMPTS)
          => /\ StoredBy(t)
             /\ hist[task[t].email].spent
    /\ \A t \in Tasks :
          (/\ Returned(t)
           /\ task[t].before.spent
           /\ task[t].pin # task[t].before.latest
           /\ now <= task[t].before.at + PIN_TTL_MINUTES)
          => /\ Found(t)
             /\ Seen(t).attempts = 0
             /\ task[t].reason = "mismatch"
             /\ hist[task[t].email].compared = <<0>>
             /\ pin_storage[task[t].email].attempts = 1

\* a wrong code is compared after an issue that replaced an entry with 3
\* recorded failures
C21_Witness ==
    \E t \in Tasks :
        /\ Returned(t)
        /\ task[t].before.spent
        /\ task[t].reason = "mismatch"
        /\ pin_storage[task[t].email].attempts = 1

\* the response of the verify-pin route to a request whose PIN was refused
Refused ==
    [status |-> 401, detail |-> "Invalid or expired PIN. Please request a new PIN.",
     access_token |-> <<>>, email |-> ""]

\* C22: the verify-pin route gives the same response, a 401 with one fixed
\* message, for all four causes of failure: whether the dictionary holds no
\* entry for the email, an expired one, one with 3 failures or one with
\* another code, the response of a failing request is the same.
C22_SameResponseOnFailure ==
    /\ \A t \in Tasks :
          (Returned(t) /\ ~IsValid(task[t].reason))
          => VerifyPinResponse(task[t].reason, task[t].email, now) = Refused
    /\ \A reason \in {"not_found", "expired", "too_many_attempts", "mismatch"}, k \in Ids :
          VerifyPinResponse(reason, k, now) = Refused

\* a request refused for want of an entry, after requests for the same email
\* were refused for a wrong code and for 3 recorded failures
C22_Witness ==
    \E t \in Tasks :
        /\ Returned(t)
        /\ task[t].before.run = <<"mismatch", "mismatch", "mismatch", "too_many_attempts">>
        /\ task[t].reason = "not_found"
        /\ VerifyPinResponse(task[t].reason, task[t].email, now) = Refused

====
